---- MODULE Spec2Model ----
(***************************************************************************)
(* Starfighter generator (src/context/generate-ships.py).                  *)
(*                                                                         *)
(* Lengths are integers in thousandths of a unit (0.03 is 30), angles in   *)
(* whole degrees, colours and shading factors in thousandths.              *)
(*                                                                         *)
(* The process-wide random stream of the `random` module is one integer    *)
(* state; every call of random(), uniform() or choice() advances it by    *)
(* one step and reads the new state.  seed(S) sets the state to a value    *)
(* that depends on S only (and on `salt`, the unknown mixing of the        *)
(* library's seeding, fixed for a whole run).                              *)
(*                                                                         *)
(* The mesh is the sequence of the primitives requested from the builder,  *)
(* each with the material index its faces are tagged with and with the     *)
(* corners of its bounding solid (the cylinder around a cone, the box      *)
(* around a sphere or an extruded face); bevel, smoothing and the move of  *)
(* the origin to the centre of mass change no dimension of the bounding    *)
(* box and are left out.                                                   *)
(***************************************************************************)
EXTENDS Integers, Sequences, FiniteSets

\* Number of states of the random stream.
StreamStates == 1024
\* Largest state the stream may be in when the process starts.
MaxPrior == 1
\* How many draws other code may take from the stream between two calls.
MaxOther == 1

num_ships == 10

VARIABLES
    rng,            \* state of the process-wide random stream
    draws,          \* draws taken from the stream since generate_starfighter was entered
    salt,           \* the seeding function's mixing, unknown but fixed
    pc,             \* position of the program
    i,              \* loop index of main
    random_seed,    \* argument of the running generate_starfighter call
    fuselage_style, \* value returned by create_fuselage
    wing_style,     \* value returned by add_wings
    engines,        \* what add_engines received and chose
    bm,             \* the mesh under construction: sequence of primitives
    materials,      \* materials attached to the mesh
    palette_at,     \* stream positions at which create_materials started, per ship
    obj,            \* bounding box and scale of the finished object
    exported,       \* indexes of the ships written by export_glb
    generated,      \* indexes of the ships generate_starfighter returned
    failed,         \* index of the ship whose export raised, -1 if none
    calls,          \* calls made by the caller of generate_starfighter
    other,          \* draws other code took from the stream
    first           \* the ship the first of these calls returned

vars == <<rng, draws, salt, pc, i, random_seed, fuselage_style, wing_style, engines,
          bm, materials, palette_at, obj, exported, generated, failed, calls, other, first>>

----------------------------------------------------------------------------
\* Material (IntEnum)
hull == 0
hull_accent == 1
hull_dark == 2
engine_glow == 3
cockpit == 4

\* Mutation: the last member of the enumeration is left out.
Material_m == <<"hull", "hull_accent", "hull_dark", "engine_glow">>

Material == <<"hull", "hull_accent", "hull_dark", "engine_glow", "cockpit">>

----------------------------------------------------------------------------
\* The random stream.

SetMin(S) == CHOOSE x \in S : \A y \in S : x <= y
SetMax(S) == CHOOSE x \in S : \A y \in S : x >= y
Abs(x) == IF x < 0 THEN -x ELSE x

\* One step of the generator.
Step(s) == (s * 421 + 337) % StreamStates

\* The state after k draws from state s; the k-th draw reads it.
RECURSIVE Draw(_, _)
Draw(s, k) == IF k = 0 THEN s ELSE Step(Draw(s, k - 1))

\* random(): a value in [0, 1), in thousandths, read from stream word x.
random(x) == (x * 1000) \div StreamStates

\* uniform(a, b) == a + (b - a) * random()
uniform(x, a, b) == a + ((b - a) * x) \div StreamStates

\* choice(seq)
choice(x, seq) == seq[(x * Len(seq)) \div StreamStates + 1]

\* str(n) for n >= 0, as the sequence of its decimal digits.
RECURSIVE str(_)
str(n) == IF n < 10 THEN <<n>> ELSE Append(str(n \div 10), n % 10)

\* Seeds are integers or strings of digits.
IntSeed(n) == [kind |-> "int", num |-> n, text |-> <<>>]
StrSeed(t) == [kind |-> "str", num |-> 0, text |-> t]

\* Python truthiness of a seed: a nonzero integer, a non-empty string.
Truthy(sd) == IF sd.kind = "int" THEN sd.num # 0 ELSE Len(sd.text) > 0

RECURSIVE HashText(_)
HashText(t) ==
    IF t = <<>> THEN 7 ELSE (HashText(SubSeq(t, 1, Len(t) - 1)) * 31 + t[Len(t)] + 1) % StreamStates

\* seed(a): the stream state is a function of a alone.
SeedState(sd, mix) ==
    IF sd.kind = "int" THEN (Abs(sd.num) * 613 + 101 + mix) % StreamStates
    ELSE (HashText(sd.text) * 389 + mix) % StreamStates

----------------------------------------------------------------------------
\* Primitive requests to the mesh builder.  dims are the size parameters of
\* the request; lo and hi are the corners of its bounding solid.

Prim(part, kind, mat, segments, cap_ends, dims, lo, hi) ==
    [part |-> part, kind |-> kind, mat |-> mat, segments |-> segments,
     cap_ends |-> cap_ends, dims |-> dims, lo |-> lo, hi |-> hi]

\* bmesh.ops.create_cone with its axis turned onto `axis` and its centre at pos.
create_cone(part, mat, segments, cap_ends, radius1, radius2, depth, pos, axis) ==
    LET r == IF radius1 > radius2 THEN radius1 ELSE radius2
        h == depth \div 2
        ext == IF axis = "x" THEN <<h, r, r>> ELSE <<r, h, r>>
    IN Prim(part, "cone", mat, segments, cap_ends, <<radius1, radius2, depth>>,
            <<pos[1] - ext[1], pos[2] - ext[2], pos[3] - ext[3]>>,
            <<pos[1] + ext[1], pos[2] + ext[2], pos[3] + ext[3]>>)

\* bmesh.ops.create_cube(size=1) scaled by sc along the axes and moved to pos.
create_cube(part, mat, sc, pos) ==
    Prim(part, "cube", mat, 4, TRUE, sc,
         <<pos[1] - sc[1] \div 2, pos[2] - sc[2] \div 2, pos[3] - sc[3] \div 2>>,
         <<pos[1] + sc[1] \div 2, pos[2] + sc[2] \div 2, pos[3] + sc[3] \div 2>>)

\* bmesh.ops.create_icosphere of the given radius, stretched along x by
\* stretch (thousandths) and moved to pos.
create_icosphere(part, mat, radius, stretch, pos) ==
    LET rx == (radius * stretch) \div 1000
    IN Prim(part, "icosphere", mat, 2, TRUE, <<radius, rx>>,
            <<pos[1] - rx, pos[2] - radius, pos[3] - radius>>,
            <<pos[1] + rx, pos[2] + radius, pos[3] + radius>>)

\* A face on the outline xs/zs in the plane y = 0, extruded along y.
extruded_face(part, mat, xs, zs, thickness) ==
    Prim(part, "polygon", mat, Len(xs), TRUE, <<thickness>>,
         <<SetMin({xs[k] : k \in 1..Len(xs)}), 0, SetMin({zs[k] : k \in 1..Len(zs)})>>,
         <<SetMax({xs[k] : k \in 1..Len(xs)}), thickness, SetMax({zs[k] : k \in 1..Len(zs)})>>)

----------------------------------------------------------------------------
\* create_fuselage, from stream state s.

create_fuselage(s) ==
    LET style == choice(Draw(s, 1), <<"pointed", "rounded", "angular", "pod">>)
    IN CASE style = "pointed" ->
              LET length == uniform(Draw(s, 2), 1500, 2500)
                  width == uniform(Draw(s, 3), 400, 700)
              IN [style |-> style, n |-> 4,   \* height is drawn and not used
                  prims |-> << create_cone("fuselage", hull, 8, TRUE, (width * 3) \div 10, width,
                                           (length * 6) \div 10, <<0, 0, 0>>, "x"),
                               create_cone("fuselage", hull, 8, TRUE, width, (width * 7) \div 10,
                                           (length * 4) \div 10, <<-(length \div 2), 0, 0>>, "x") >>]
         [] style = "rounded" ->
              LET length == uniform(Draw(s, 2), 1800, 2800)
                  width == uniform(Draw(s, 3), 500, 800)
              IN [style |-> style, n |-> 3,
                  prims |-> << create_icosphere("fuselage", hull, width,
                                                ((length * 1000) \div width) \div 2, <<0, 0, 0>>) >>]
         [] style = "angular" ->
              LET size == uniform(Draw(s, 2), 600, 1000)
              IN [style |-> style, n |-> 2,
                  prims |-> << create_cube("fuselage", hull, <<size, size, size>>, <<0, 0, 0>>) >>]
         [] OTHER ->
              LET radius == uniform(Draw(s, 2), 500, 800)
                  stretch == uniform(Draw(s, 3), 1200, 1800)
              IN [style |-> style, n |-> 3,
                  prims |-> << create_icosphere("fuselage", hull, radius, stretch, <<0, 0, 0>>) >>]

\* add_cockpit_canopy
add_cockpit_canopy(s, fstyle) ==
    IF random(Draw(s, 1)) > 300
    THEN LET canopy_size == uniform(Draw(s, 2), 200, 400)
             y_offset == uniform(Draw(s, 3), 100, 250)
         IN IF fstyle \in {"pointed", "rounded"}
            THEN [n |-> 4,
                  prims |-> << create_icosphere("canopy", cockpit, canopy_size, 1000,
                                                <<uniform(Draw(s, 4), -200, 300), y_offset, 0>>) >>]
            ELSE [n |-> 3,
                  prims |-> << create_cube("canopy", cockpit,
                                           <<(canopy_size * 3) \div 2, (canopy_size * 3) \div 2,
                                             (canopy_size * 3) \div 2>>,
                                           <<0, y_offset, 0>>) >>]
    ELSE [n |-> 1, prims |-> <<>>]

----------------------------------------------------------------------------
\* add_wings

\* cos and sin of 15..35 degrees, in thousandths.
CosTable == <<966, 961, 956, 951, 946, 940, 934, 927, 921, 914, 906,
              899, 891, 883, 875, 866, 857, 848, 839, 829, 819>>
SinTable == <<259, 276, 292, 309, 326, 342, 358, 375, 391, 407, 423,
              438, 454, 469, 485, 500, 515, 530, 545, 559, 574>>

\* A box with corners y in {-t/2, t/2}, z in {0, l}, x in tx -/+ w/2, turned
\* about the X axis by sign * deg degrees.
rotated_panel(mat, w, t, l, tx, deg, sign) ==
    LET c == CosTable[deg - 14]
        sn == sign * SinTable[deg - 14]
        ys == {(y * c - z * sn) \div 1000 : y \in {-(t \div 2), t \div 2}, z \in {0, l}}
        zs == {(y * sn + z * c) \div 1000 : y \in {-(t \div 2), t \div 2}, z \in {0, l}}
    IN Prim("wing", "cube", mat, 4, TRUE, <<w, t, l>>,
            <<tx - w \div 2, SetMin(ys), SetMin(zs)>>,
            <<tx + w \div 2, SetMax(ys), SetMax(zs)>>)

xwing_thickness(x) == uniform(x, 30, 80)
\* Mutation: the extrusion may be as thin as nothing.
swept_thickness_m(x) == uniform(x, 0, 80)

swept_thickness(x) == uniform(x, 30, 80)
delta_thickness(x) == uniform(x, 40, 100)
stub_thickness(x) == uniform(x, 50, 120)

\* Mutation: the odd panels get the dark material.
xwing_material_m(k) == IF k % 2 = 0 THEN hull ELSE hull_dark

xwing_material(k) == IF k % 2 = 0 THEN hull ELSE hull_accent

wing_styles == <<"x-wing", "swept", "delta", "vertical", "ring", "stub">>

add_wings(s) ==
    LET style == choice(Draw(s, 1), wing_styles)
    IN CASE style = "x-wing" ->
              LET wing_length == uniform(Draw(s, 2), 1500, 2500)
                  wing_width == uniform(Draw(s, 3), 600, 1000)
                  wing_thickness == xwing_thickness(Draw(s, 4))
                  spread_angle == uniform(Draw(s, 5), 15, 35)
                  panel(k) == rotated_panel(xwing_material(k), wing_width, wing_thickness,
                                            wing_length, uniform(Draw(s, 6 + k), -300, 100),
                                            spread_angle,
                                            (IF k < 2 THEN 1 ELSE -1) * (IF k % 2 = 0 THEN 1 ELSE -1))
              IN [style |-> style, n |-> 9,
                  prims |-> <<panel(0), panel(1), panel(2), panel(3)>>]
         [] style = "swept" ->
              LET wing_length == uniform(Draw(s, 2), 1200, 2000)
                  wing_width == uniform(Draw(s, 3), 800, 1400)
                  sweep == uniform(Draw(s, 4), 300, 700)
                  wing(side, k) ==
                      extruded_face("wing", hull_accent,
                          <<0, -((wing_width * sweep) \div 1000),
                            (wing_width * (1000 - sweep)) \div 1000, (wing_width * 3) \div 10>>,
                          <<200 * side, wing_length * side, wing_length * side, 300 * side>>,
                          swept_thickness(Draw(s, k)))
              IN [style |-> style, n |-> 6, prims |-> <<wing(-1, 5), wing(1, 6)>>]
         [] style = "delta" ->
              LET wing_span == uniform(Draw(s, 2), 1500, 2500)
                  wing_length == uniform(Draw(s, 3), 1000, 1800)
                  wing(side, k) ==
                      extruded_face("wing", hull_accent,
                          <<wing_length \div 2, -(wing_length \div 2), -((wing_length * 3) \div 10)>>,
                          <<0, (wing_span \div 2) * side, 100 * side>>,
                          delta_thickness(Draw(s, k)))
              IN [style |-> style, n |-> 5, prims |-> <<wing(-1, 4), wing(1, 5)>>]
         [] style = "vertical" ->
              LET wing_height == uniform(Draw(s, 2), 1500, 2500)
                  wing_width == uniform(Draw(s, 3), 1000, 1800)
                  panel(side, k) ==
                      IF random(Draw(s, k)) > 500
                      THEN create_cone("wing", hull_dark, 6, TRUE, wing_height \div 2,
                                       wing_height \div 2, 50,
                                       <<0, 0, ((wing_width * 6) \div 10) * side>>, "x")
                      ELSE create_cube("wing", hull_dark,
                                       <<(wing_width * 8) \div 10, wing_height, 50>>,
                                       <<0, 0, ((wing_width * 6) \div 10) * side>>)
                  strut(side) ==
                      create_cube("wing", hull, <<100, 100, (wing_width * 3) \div 10>>,
                                  <<0, 0, ((wing_width * 3) \div 10) * side>>)
              IN [style |-> style, n |-> 5,
                  prims |-> <<panel(-1, 4), strut(-1), panel(1, 5), strut(1)>>]
         [] style = "ring" ->
              LET ring_radius == uniform(Draw(s, 2), 1200, 2000)
                  ring_thickness == uniform(Draw(s, 3), 100, 200)
              IN [style |-> style, n |-> 3,
                  prims |-> << create_cone("wing", hull_accent, 32, FALSE, ring_radius, ring_radius,
                                           ring_thickness, <<0, 0, 0>>, "x"),
                               create_cone("wing", hull_dark, 32, FALSE, (ring_radius * 85) \div 100,
                                           (ring_radius * 85) \div 100, (ring_thickness * 3) \div 2,
                                           <<0, 0, 0>>, "x") >>]
         [] OTHER ->
              LET wing_length == uniform(Draw(s, 2), 500, 800)
                  wing(side, k) ==
                      create_cube("wing", hull_accent,
                                  <<uniform(Draw(s, k + 1), 400, 700), stub_thickness(Draw(s, k + 2)),
                                    wing_length>>,
                                  <<uniform(Draw(s, k), -200, 200), 0,
                                    ((wing_length * 6) \div 10) * side>>)
              IN [style |-> style, n |-> 8, prims |-> <<wing(-1, 3), wing(1, 6)>>]

----------------------------------------------------------------------------
\* add_engines

engine_styles == <<"rear", "wing_tip", "pod", "central">>

\* Mutation: the wing style is not looked at.
placement_m(engine_style, wstyle) == engine_style

\* The branch of add_engines that is taken.
placement(engine_style, wstyle) ==
    IF engine_style = "rear" \/ wstyle = "vertical" THEN "rear" ELSE engine_style

\* Mutation: a fourth engine may be chosen.
num_engines_choices_m == <<1, 2, 3, 4>>

num_engines_choices == <<1, 2, 3>>

\* positions of the rear branch: spacing 0.25 along z, centred.
rear_positions(num_engines) ==
    [k \in 1..num_engines |-> <<-800, 0, (2 * (k - 1) - (num_engines - 1)) * 125>>]

\* Mutation: only the first two of the four positions are added.
wing_tip_extra_m(s, wing_span) ==
    << <<uniform(Draw(s, 8), -300, 100), (wing_span * 3) \div 10, wing_span \div 2>>,
       <<uniform(Draw(s, 9), -300, 100), -((wing_span * 3) \div 10), wing_span \div 2>> >>

\* the four positions the wing_tip branch may add
wing_tip_extra(s, wing_span) ==
    << <<uniform(Draw(s, 8), -300, 100), (wing_span * 3) \div 10, wing_span \div 2>>,
       <<uniform(Draw(s, 9), -300, 100), -((wing_span * 3) \div 10), wing_span \div 2>>,
       <<uniform(Draw(s, 10), -300, 100), (wing_span * 3) \div 10, -(wing_span \div 2)>>,
       <<uniform(Draw(s, 11), -300, 100), -((wing_span * 3) \div 10), -(wing_span \div 2)>> >>

\* the housing and the glow cone appended for one position
engine_pair(pos, engine_radius, engine_length) ==
    << create_cone("engine", hull_dark, 12, TRUE, engine_radius, (engine_radius * 8) \div 10,
                   engine_length, pos, "x"),
       create_cone("engine", engine_glow, 12, TRUE, (engine_radius * 7) \div 10,
                   engine_radius \div 2, (engine_length * 3) \div 10,
                   <<pos[1] - engine_length \div 2, pos[2], pos[3]>>, "x") >>

RECURSIVE engine_prims(_, _, _)
engine_prims(positions, engine_radius, engine_length) ==
    IF positions = <<>> THEN <<>>
    ELSE engine_pair(Head(positions), engine_radius, engine_length)
         \o engine_prims(Tail(positions), engine_radius, engine_length)

add_engines(s, wstyle) ==
    LET engine_style == choice(Draw(s, 1), engine_styles)
        radius0 == uniform(Draw(s, 2), 100, 250)
        length0 == uniform(Draw(s, 3), 300, 600)
        branch == placement(engine_style, wstyle)
        r == CASE branch = "rear" ->
                    [n |-> 4, positions |-> rear_positions(choice(Draw(s, 4), num_engines_choices)),
                     engine_radius |-> radius0, engine_length |-> length0]
               [] branch = "wing_tip" ->
                    LET wing_span == uniform(Draw(s, 4), 1000, 1800)
                        two == << <<uniform(Draw(s, 5), -300, 100), 0, wing_span>>,
                                  <<uniform(Draw(s, 6), -300, 100), 0, -wing_span>> >>
                    IN IF random(Draw(s, 7)) > 500
                       THEN [n |-> 11, positions |-> two \o wing_tip_extra(s, wing_span),
                             engine_radius |-> radius0, engine_length |-> length0]
                       ELSE [n |-> 7, positions |-> two,
                             engine_radius |-> radius0, engine_length |-> length0]
               [] branch = "pod" ->
                    LET pod_offset == uniform(Draw(s, 4), 500, 900)
                    IN [n |-> 4, positions |-> << <<-300, 0, pod_offset>>, <<-300, 0, -pod_offset>> >>,
                        engine_radius |-> (radius0 * 3) \div 2, engine_length |-> (length0 * 3) \div 2]
               [] OTHER ->
                    [n |-> 3, positions |-> << <<-700, 0, 0>> >>,
                     engine_radius |-> radius0 * 2, engine_length |-> (length0 * 3) \div 2]
    IN [wing_style |-> wstyle, engine_style |-> engine_style, placement |-> branch,
        drawn_radius |-> radius0, drawn_length |-> length0,
        engine_radius |-> r.engine_radius, engine_length |-> r.engine_length,
        positions |-> r.positions, n |-> r.n,
        prims |-> engine_prims(r.positions, r.engine_radius, r.engine_length)]

----------------------------------------------------------------------------
\* add_details

add_details(s) ==
    LET guns == random(Draw(s, 1)) > 400
        k1 == IF guns THEN 4 ELSE 1
        gun_length == uniform(Draw(s, 2), 400, 800)
        gun_radius == uniform(Draw(s, 3), 20, 50)
        gun_spread == uniform(Draw(s, 4), 150, 350)
        gun(side) == create_cone("gun", hull_dark, 6, TRUE, gun_radius, gun_radius, gun_length,
                                 <<gun_length \div 2 + 500, 0, gun_spread * side>>, "x")
        weapons == random(Draw(s, k1 + 1)) > 500
        k2 == IF weapons THEN k1 + 5 ELSE k1 + 1
        weapon(side, k) == create_cone("weapon", hull_dark, 6, TRUE, 30, 30, 500,
                                       <<uniform(Draw(s, k), 0, 500), 0,
                                         uniform(Draw(s, k + 1), 800, 1500) * side>>, "x")
        sensor == random(Draw(s, k2 + 1)) > 600
    IN [n |-> k2 + 1,
        prims |-> (IF guns THEN <<gun(-1), gun(1)>> ELSE <<>>)
                  \o (IF weapons THEN <<weapon(-1, k1 + 2), weapon(1, k1 + 4)>> ELSE <<>>)
                  \o (IF sensor
                      THEN <<create_cone("sensor", hull_accent, 8, TRUE, 0, 100, 150,
                                         <<300, 300, 0>>, "y")>>
                      ELSE <<>>)]

----------------------------------------------------------------------------
\* create_materials

\* colorsys._v, hue in thousandths
hls_v(m1, m2, hue) ==
    LET h == hue % 1000
    IN IF h * 6 < 1000 THEN m1 + ((m2 - m1) * h * 6) \div 1000
       ELSE IF h < 500 THEN m2
       ELSE IF h * 3 < 2000 THEN m1 + ((m2 - m1) * (2000 - 3 * h) * 2) \div 1000
       ELSE m1

\* colorsys.hls_to_rgb
hls_to_rgb(h, l, sat) ==
    IF sat = 0 THEN <<l, l, l>>
    ELSE LET m2 == IF l <= 500 THEN (l * (1000 + sat)) \div 1000 ELSE l + sat - (l * sat) \div 1000
             m1 == 2 * l - m2
         IN <<hls_v(m1, m2, h + 333), hls_v(m1, m2, h), hls_v(m1, m2, h - 333)>>

\* Mutation: the glow hue reuses the sixth draw.
palette_draws_m == 7 - 1

\* the number of draws create_materials takes
palette_draws == 7

create_materials(s) ==
    LET hull_hue == random(Draw(s, 1))
        hull_base == hls_to_rgb(hull_hue, uniform(Draw(s, 2), 400, 700), uniform(Draw(s, 3), 0, 150))
        accent_hue == (hull_hue + uniform(Draw(s, 4), 50, 150)) % 1000
        accent_color == hls_to_rgb(accent_hue, uniform(Draw(s, 5), 400, 600),
                                   uniform(Draw(s, 6), 500, 800))
        glow_hue == choice(Draw(s, palette_draws), <<0, 100, 550, 650>>)
        glow_color == hls_to_rgb(glow_hue, 600, 1000)
        mat(k) ==
            CASE k = hull + 1 -> [name |-> Material[k], base |-> hull_base, metallic |-> 300,
                                  roughness |-> 500, emission |-> 0]
              [] k = hull_accent + 1 -> [name |-> Material[k], base |-> accent_color, metallic |-> 200,
                                         roughness |-> 400, emission |-> 0]
              [] k = hull_dark + 1 -> [name |-> Material[k],
                                       base |-> <<hull_base[1] \div 5, hull_base[2] \div 5,
                                                  hull_base[3] \div 5>>,
                                       metallic |-> 600, roughness |-> 300, emission |-> 0]
              [] k = engine_glow + 1 -> [name |-> Material[k], base |-> glow_color, metallic |-> 0,
                                         roughness |-> 500, emission |-> 8000]
              [] OTHER -> [name |-> Material[k], base |-> <<100, 150, 200>>, metallic |-> 900,
                           roughness |-> 100, emission |-> 0]
    IN [n |-> palette_draws, mats |-> [k \in 1..Len(Material) |-> mat(k)]]

----------------------------------------------------------------------------
\* State before any ship exists.

NoEngines == [wing_style |-> "", engine_style |-> "", placement |-> "", at |-> 0,
              drawn_radius |-> 0, drawn_length |-> 0, engine_radius |-> 0,
              engine_length |-> 0, positions |-> <<>>]
NoObj == [dims |-> <<0, 0, 0>>, max_dim |-> 0, scaled |-> <<0, 0, 0>>]
NoShip == [fuselage_style |-> "", wing_style |-> "", engines |-> NoEngines,
           bm |-> <<>>, materials |-> <<>>]

\* The ship generate_starfighter has built.
Ship == [fuselage_style |-> fuselage_style, wing_style |-> wing_style, engines |-> engines,
         bm |-> bm, materials |-> materials]

InitCommon ==
    /\ rng \in 0..MaxPrior
    /\ draws = 0
    /\ i = 0
    /\ random_seed = StrSeed(<<>>)
    /\ fuselage_style = ""
    /\ wing_style = ""
    /\ engines = NoEngines
    /\ bm = <<>>
    /\ materials = <<>>
    /\ palette_at = {}
    /\ obj = NoObj
    /\ exported = {}
    /\ generated = {}
    /\ failed = -1
    /\ calls = 0
    /\ other = 0
    /\ first = NoShip

\* main() is entered; the stream is in the state the process left it in.
Init ==
    /\ InitCommon
    /\ salt \in 0..(StreamStates - 1)
    /\ pc = "loop"

----------------------------------------------------------------------------
\* generate_starfighter

\* if random_seed: seed(random_seed); bm = bmesh.new()
GenerateStarfighter ==
    /\ pc = "seed"
    /\ rng' = IF Truthy(random_seed) THEN SeedState(random_seed, salt) ELSE rng
    /\ draws' = 0
    /\ bm' = <<>>
    /\ fuselage_style' = ""
    /\ wing_style' = ""
    /\ engines' = NoEngines
    /\ materials' = <<>>
    /\ pc' = "fuselage"
    /\ UNCHANGED <<salt, i, random_seed, palette_at, obj, exported, generated, failed,
                   calls, other, first>>

\* fuselage_style = create_fuselage(bm)
CreateFuselage ==
    /\ pc = "fuselage"
    /\ LET r == create_fuselage(rng)
       IN /\ fuselage_style' = r.style
          /\ bm' = bm \o r.prims
          /\ rng' = Draw(rng, r.n)
          /\ draws' = draws + r.n
    /\ pc' = "canopy"
    /\ UNCHANGED <<salt, i, random_seed, wing_style, engines, materials, palette_at, obj,
                   exported, generated, failed, calls, other, first>>

\* add_cockpit_canopy(bm, fuselage_style)
AddCockpitCanopy ==
    /\ pc = "canopy"
    /\ LET r == add_cockpit_canopy(rng, fuselage_style)
       IN /\ bm' = bm \o r.prims
          /\ rng' = Draw(rng, r.n)
          /\ draws' = draws + r.n
    /\ pc' = "wings"
    /\ UNCHANGED <<salt, i, random_seed, fuselage_style, wing_style, engines, materials,
                   palette_at, obj, exported, generated, failed, calls, other, first>>

\* wing_style = add_wings(bm)
AddWings ==
    /\ pc = "wings"
    /\ LET r == add_wings(rng)
       IN /\ wing_style' = r.style
          /\ bm' = bm \o r.prims
          /\ rng' = Draw(rng, r.n)
          /\ draws' = draws + r.n
    /\ pc' = "engines"
    /\ UNCHANGED <<salt, i, random_seed, fuselage_style, engines, materials, palette_at, obj,
                   exported, generated, failed, calls, other, first>>

\* add_engines(bm, wing_style)
AddEngines ==
    /\ pc = "engines"
    /\ LET r == add_engines(rng, wing_style)
       IN /\ engines' = [wing_style |-> r.wing_style, engine_style |-> r.engine_style,
                         placement |-> r.placement, at |-> rng,
                         drawn_radius |-> r.drawn_radius, drawn_length |-> r.drawn_length,
                         engine_radius |-> r.engine_radius, engine_length |-> r.engine_length,
                         positions |-> r.positions]
          /\ bm' = bm \o r.prims
          /\ rng' = Draw(rng, r.n)
          /\ draws' = draws + r.n
    /\ pc' = "details"
    /\ UNCHANGED <<salt, i, random_seed, fuselage_style, wing_style, materials, palette_at,
                   obj, exported, generated, failed, calls, other, first>>

\* add_details(bm)
AddDetails ==
    /\ pc = "details"
    /\ LET r == add_details(rng)
       IN /\ bm' = bm \o r.prims
          /\ rng' = Draw(rng, r.n)
          /\ draws' = draws + r.n
    /\ pc' = "materials"
    /\ UNCHANGED <<salt, i, random_seed, fuselage_style, wing_style, engines, materials,
                   palette_at, obj, exported, generated, failed, calls, other, first>>

\* The mesh becomes an object centred at the origin; materials = create_materials()
\* and each is appended to the mesh; return obj.
AttachMaterials ==
    /\ pc = "materials"
    /\ LET r == create_materials(rng)
       IN /\ materials' = r.mats
          /\ rng' = Draw(rng, r.n)
          /\ draws' = draws + r.n
    /\ palette_at' = palette_at \cup {draws}
    /\ pc' = "returned"
    /\ UNCHANGED <<salt, i, random_seed, fuselage_style, wing_style, engines, bm, obj,
                   exported, generated, failed, calls, other, first>>

Generate ==
    \/ GenerateStarfighter
    \/ CreateFuselage
    \/ AddCockpitCanopy
    \/ AddWings
    \/ AddEngines
    \/ AddDetails
    \/ AttachMaterials

----------------------------------------------------------------------------
\* main

\* for i in range(num_ships): reset_scene(); generate_starfighter(str(i * 7777 + 42))
MainLoop ==
    /\ pc = "loop"
    /\ i < num_ships
    /\ random_seed' = StrSeed(str(i * 7777 + 42))
    /\ obj' = NoObj
    /\ pc' = "seed"
    /\ UNCHANGED <<rng, draws, salt, i, fuselage_style, wing_style, engines, bm, materials,
                   palette_at, exported, generated, failed, calls, other, first>>

\* The bounding box of the mesh: its dimensions along x, y, z.
bound_box_dims(mesh) ==
    LET P == {mesh[k] : k \in 1..Len(mesh)}
    IN [a \in 1..3 |-> SetMax({p.hi[a] : p \in P}) - SetMin({p.lo[a] : p \in P})]

\* Mutation: the length along x is taken for the largest dimension.
max_dim_m(dims) == dims[1]

\* max_dim = max(dims)
max_dim(dims) == SetMax({dims[1], dims[2], dims[3]})

\* scale_factor = 1.5 / max_dim, applied to a length d.  The quotient is kept
\* exact: d * 1.5 / max_dim.
scale_by_factor(d, m) == (d * 1500) \div m

\* The ship returned is scaled so that its largest dimension is 1.5.
\* A max_dim of 0 raises ZeroDivisionError, which ends main.
Normalize ==
    /\ pc = "returned"
    /\ generated' = generated \cup {i}
    /\ LET dims == bound_box_dims(bm)
           m == max_dim(dims)
       IN IF m = 0
          THEN /\ failed' = i
               /\ pc' = "aborted"
               /\ obj' = [dims |-> dims, max_dim |-> m, scaled |-> dims]
          ELSE /\ obj' = [dims |-> dims, max_dim |-> m,
                          scaled |-> [a \in 1..3 |-> scale_by_factor(dims[a], m)]]
               /\ pc' = "export"
               /\ UNCHANGED failed
    /\ UNCHANGED <<rng, draws, salt, i, random_seed, fuselage_style, wing_style, engines, bm,
                   materials, palette_at, exported, calls, other, first>>

\* export_glb(output_path) writes the file; the loop goes on.
ExportGlb ==
    /\ pc = "export"
    /\ exported' = exported \cup {i}
    /\ i' = i + 1
    /\ pc' = "loop"
    /\ UNCHANGED <<rng, draws, salt, random_seed, fuselage_style, wing_style, engines, bm,
                   materials, palette_at, obj, generated, failed, calls, other, first>>

\* Mutation: the failure is caught and the loop goes on with the next ship.
ExportGlbRaises_m ==
    /\ pc = "export"
    /\ failed' = i
    /\ i' = i + 1
    /\ pc' = "loop"
    /\ UNCHANGED <<rng, draws, salt, random_seed, fuselage_style, wing_style, engines, bm,
                   materials, palette_at, obj, exported, generated, calls, other, first>>

\* export_glb raises (the path cannot be written): nothing in main catches
\* it, the exception leaves main and the process ends.
ExportGlbRaises ==
    /\ pc = "export"
    /\ failed' = i
    /\ pc' = "aborted"
    /\ UNCHANGED <<rng, draws, salt, i, random_seed, fuselage_style, wing_style, engines, bm,
                   materials, palette_at, obj, exported, generated, calls, other, first>>

\* The loop is over: "Done! Generated ..." is printed.
MainDone ==
    /\ pc = "loop"
    /\ i = num_ships
    /\ pc' = "done"
    /\ UNCHANGED <<rng, draws, salt, i, random_seed, fuselage_style, wing_style, engines, bm,
                   materials, palette_at, obj, exported, generated, failed, calls, other, first>>

Next ==
    \/ MainLoop
    \/ Generate
    \/ Normalize
    \/ ExportGlb
    \/ ExportGlbRaises
    \/ MainDone

Spec == Init /\ [][Next]_vars

----------------------------------------------------------------------------
\* generate_starfighter called twice with one seed by another caller, the
\* stream being used by other code before and between the calls.

MaxSalt == 15

\* The seeds a caller gives: integers and strings of digits.  (The empty
\* string is the default of random_seed and stands for no seed being given.)
Seeds == {IntSeed(0), IntSeed(1), IntSeed(42), StrSeed(<<4, 2>>), StrSeed(str(7819))}

InitGen ==
    /\ InitCommon
    /\ salt \in 0..MaxSalt
    /\ pc = "caller"

Call ==
    /\ pc = "caller"
    /\ calls < 2
    /\ IF calls = 0 THEN random_seed' \in Seeds ELSE random_seed' = random_seed
    /\ pc' = "seed"
    /\ UNCHANGED <<rng, draws, salt, i, fuselage_style, wing_style, engines, bm, materials,
                   palette_at, obj, exported, generated, failed, calls, other, first>>

\* Other code takes a draw from the process-wide stream.
OtherDraw ==
    /\ pc = "caller"
    /\ other < MaxOther
    /\ rng' = Step(rng)
    /\ other' = other + 1
    /\ UNCHANGED <<draws, salt, pc, i, random_seed, fuselage_style, wing_style, engines, bm,
                   materials, palette_at, obj, exported, generated, failed, calls, first>>

Return ==
    /\ pc = "returned"
    /\ calls' = calls + 1
    /\ first' = IF calls = 0 THEN Ship ELSE first
    /\ pc' = "caller"
    /\ UNCHANGED <<rng, draws, salt, i, random_seed, fuselage_style, wing_style, engines, bm,
                   materials, palette_at, obj, exported, generated, failed, other>>

NextGen ==
    \/ Call
    \/ OtherDraw
    \/ Generate
    \/ Return

SpecGen == InitGen /\ [][NextGen]_vars

----------------------------------------------------------------------------
\* Properties.

Range(sq) == {sq[k] : k \in 1..Len(sq)}
Parts(part) == SelectSeq(bm, LAMBDA p : p.part = part)
HasPart(part) == \E p \in Range(bm) : p.part = part

\* add_engines has run for the ship under construction.
EnginesAdded == engines.placement # ""
\* generate_starfighter has returned the ship and it is not yet exported.
ShipReturned == pc \in {"returned", "export"}

\* C1: generate_starfighter(S) called twice with the same seed S returns the
\* same ship (styles, primitives, materials, sampled parameters), whatever
\* state the process-wide stream was in before each call.
C1_Determinism == (pc = "caller" /\ calls = 2) => Ship = first

\* C2: when add_engines receives wing style 'vertical' the placement used is
\* 'rear': 1 to 3 engines at x = -0.8, evenly spaced 0.25 apart along z around
\* 0, with the radius and length as drawn (no pod or central scaling),
\* whatever engine style was drawn.
C2_VerticalForcesRear ==
    (EnginesAdded /\ engines.wing_style = "vertical") =>
        LET n == Len(engines.positions)
        IN /\ engines.placement = "rear"
           /\ n \in 1..3
           /\ \A k \in 1..n :
                engines.positions[k] = <<-800, 0, (2 * (k - 1) - (n - 1)) * 125>>
           /\ engines.engine_radius = engines.drawn_radius
           /\ engines.engine_length = engines.drawn_length

C2_Witness ==
    /\ EnginesAdded
    /\ engines.wing_style = "vertical"
    /\ engines.engine_style = "pod"
    /\ Len(engines.positions) = 3

Housings == SelectSeq(bm, LAMBDA p : p.part = "engine" /\ p.mat = hull_dark)
Glows == SelectSeq(bm, LAMBDA p : p.part = "engine" /\ p.mat = engine_glow)

\* C3 as stated: with engine style 'central' drawn and wing style 'vertical',
\* add_engines produces exactly 1 engine pair (one hull_dark housing, one
\* engine_glow cone).
C3_ExactlyOnePair ==
    (EnginesAdded /\ engines.engine_style = "central" /\ engines.wing_style = "vertical") =>
        /\ Len(engines.positions) = 1
        /\ Len(Housings) = 1
        /\ Len(Glows) = 1

\* C3 amended: with engine style 'central' drawn and wing style 'vertical',
\* the rear branch runs: add_engines produces 1, 2 or 3 engine pairs, as many
\* as its num_engines draw (the fourth draw of add_engines) chooses.
C3_RearPairs ==
    (EnginesAdded /\ engines.engine_style = "central" /\ engines.wing_style = "vertical") =>
        LET n == Len(engines.positions)
        IN /\ n \in 1..3
           /\ n = (Draw(engines.at, 4) * 3) \div StreamStates + 1
           /\ Len(Housings) = n
           /\ Len(Glows) = n

C3_Witness ==
    /\ EnginesAdded
    /\ engines.engine_style = "central"
    /\ engines.wing_style = "vertical"
    /\ Len(Housings) = 3

\* C4: the position list of add_engines is never empty and its size follows
\* the placement: rear 1, 2 or 3; wing_tip 2 or 6; pod 2; central 1; and for
\* each position one hull_dark housing cone then one engine_glow cone is
\* appended.
C4_EngineCount ==
    EnginesAdded =>
        LET n == Len(engines.positions)
            E == Parts("engine")
        IN /\ n > 0
           /\ engines.placement = "rear" => n \in 1..3
           /\ engines.placement = "wing_tip" => n \in {2, 6}
           /\ engines.placement = "pod" => n = 2
           /\ engines.placement = "central" => n = 1
           /\ engines.placement \in {"rear", "wing_tip", "pod", "central"}
           /\ Len(E) = 2 * n
           /\ \A k \in 1..n :
                /\ E[2 * k - 1].kind = "cone" /\ E[2 * k - 1].mat = hull_dark
                /\ E[2 * k].kind = "cone" /\ E[2 * k].mat = engine_glow

C4_Witness ==
    /\ EnginesAdded
    /\ engines.placement = "wing_tip"
    /\ Len(engines.positions) = 6
    /\ Len(Parts("engine")) = 12

\* C5: for every ship of the batch loop the divisor max_dim is strictly
\* positive, the scale 1.5 / max_dim is applied to all three axes alike, and
\* after it the largest bounding-box dimension is 1.5.
C5_Normalized ==
    (pc \in {"export", "aborted"}) =>
        /\ obj.max_dim > 0
        /\ \A a \in 1..3 : obj.scaled[a] = (obj.dims[a] * 1500) \div obj.max_dim
        /\ \A a \in 1..3 : obj.scaled[a] <= 1500
        /\ \E a \in 1..3 : obj.scaled[a] = 1500

C5_Witness ==
    /\ pc = "export"
    /\ obj.dims[3] > obj.dims[1]
    /\ obj.dims[1] > obj.dims[2]
    /\ obj.max_dim > 1500
    /\ obj.scaled[3] = 1500

\* C6: when generate_starfighter has returned, every face of the mesh carries
\* a material index in 0..4 and exactly the 5 palette entries hull,
\* hull_accent, hull_dark, engine_glow, cockpit are attached, in that order.
C6_MaterialComplete ==
    ShipReturned =>
        /\ \A p \in Range(bm) : p.mat \in 0..4
        /\ Len(materials) = 5
        /\ [k \in 1..Len(materials) |-> materials[k].name]
             = <<"hull", "hull_accent", "hull_dark", "engine_glow", "cockpit">>

C6_Witness ==
    /\ pc = "export"
    /\ {p.mat : p \in Range(bm)} = 0..4
    /\ Len(materials) = 5

\* C7 as stated: the positions in the stream from which create_materials
\* draws are the same whatever branches the ships took.
C7_SamePosition == Cardinality(palette_at) <= 1

\* The draws each part of the ship returned has taken, read off the ship.
FuselageDraws ==
    CASE fuselage_style = "pointed" -> 4 [] fuselage_style = "rounded" -> 3
      [] fuselage_style = "angular" -> 2 [] OTHER -> 3
CanopyDraws ==
    IF ~HasPart("canopy") THEN 1
    ELSE IF fuselage_style \in {"pointed", "rounded"} THEN 4 ELSE 3
WingDraws ==
    CASE wing_style = "x-wing" -> 9 [] wing_style = "swept" -> 6 [] wing_style = "delta" -> 5
      [] wing_style = "vertical" -> 5 [] wing_style = "ring" -> 3 [] OTHER -> 8
EngineDraws ==
    CASE engines.placement = "rear" -> 4
      [] engines.placement = "wing_tip" -> (IF Len(engines.positions) = 6 THEN 11 ELSE 7)
      [] engines.placement = "pod" -> 4
      [] OTHER -> 3
DetailDraws ==
    3 + (IF HasPart("gun") THEN 3 ELSE 0) + (IF HasPart("weapon") THEN 4 ELSE 0)

\* C7 amended: create_materials draws from the stream the geometry drew from,
\* after it: its 7 draws start at the position that follows the draws of the
\* fuselage, canopy, wing, engine and detail branches the ship took, so the
\* position is the sum of what these branches consumed.
C7_PositionFollowsBranches ==
    ShipReturned =>
        LET at == FuselageDraws + CanopyDraws + WingDraws + EngineDraws + DetailDraws
        IN /\ at \in palette_at
           /\ draws = at + 7

C7_Witness ==
    /\ pc = "export"
    /\ Cardinality(palette_at) >= 3
    /\ draws - 7 \in palette_at

\* C8 as stated: when ship i fails, the ships with a greater index are still
\* generated and exported.
C8_LaterShipsStillMade ==
    (pc = "aborted") =>
        \A j \in (failed + 1)..(num_ships - 1) : j \in generated /\ j \in exported

\* C8 amended: when the export of ship i raises, main ends there: the ships
\* before i stay exported, ship i is generated and not exported, and no ship
\* with a greater index is generated or exported.
C8_FailureEndsBatch ==
    (failed # -1) =>
        /\ pc = "aborted"
        /\ i = failed
        /\ generated = 0..failed
        /\ exported = 0..(failed - 1)

C8_Witness ==
    /\ pc = "aborted"
    /\ failed = 3
    /\ exported = 0..2

\* The smallest extent of the solid a request asks for.
MinDim(p) ==
    CASE p.kind = "cone" ->
           SetMin({p.dims[3], 2 * (IF p.dims[1] > p.dims[2] THEN p.dims[1] ELSE p.dims[2])})
      [] p.kind = "icosphere" -> 2 * SetMin({p.dims[1], p.dims[2]})
      [] OTHER -> SetMin(Range(p.dims))

\* C9 as stated: no primitive request has a zero dimension (radius, depth,
\* size, thickness) and every solid's minimum dimension, every wing thickness
\* in particular, exceeds 0.03.
C9_NoZeroAboveMinimum ==
    \A p \in Range(bm) :
        /\ \A d \in Range(p.dims) : d # 0
        /\ MinDim(p) > 30

\* C9 amended: every request has a strictly positive depth, size and
\* thickness and non-negative radii of which one is positive; the one zero
\* parameter is radius1 = 0.0 of the sensor cone (its apex); and every
\* solid's minimum dimension, every wing thickness in particular, is at
\* least 0.03, a value the x-wing and swept thickness can take.
C9_PositiveAtLeastMinimum ==
    \A p \in Range(bm) :
        /\ \A d \in Range(p.dims) : d >= 0
        /\ (\E d \in Range(p.dims) : d = 0) => (p.part = "sensor" /\ p.dims = <<0, 100, 150>>)
        /\ MinDim(p) >= 30
        /\ p.part = "wing" => \A d \in Range(p.dims) : d >= 30

C9_Witness ==
    /\ pc = "export"
    /\ \E p \in Range(bm) : p.part = "wing" /\ MinDim(p) = 30
    /\ \E p \in Range(bm) : p.part = "sensor" /\ p.dims[1] = 0

\* C10 as stated: every face add_wings appends is tagged hull or hull_accent,
\* and the style add_wings returns is the one add_engines receives.
C10_HullOrAccent ==
    /\ \A p \in Range(bm) : p.part = "wing" => p.mat \in {hull, hull_accent}
    /\ EnginesAdded => engines.wing_style = wing_style

\* The primitives each wing style appends.
WingShape(style, W) ==
    CASE style = "x-wing" -> Len(W) = 4 /\ \A k \in 1..4 : W[k].kind = "cube"
      [] style = "swept" -> Len(W) = 2 /\ \A k \in 1..2 : W[k].kind = "polygon" /\ W[k].segments = 4
      [] style = "delta" -> Len(W) = 2 /\ \A k \in 1..2 : W[k].kind = "polygon" /\ W[k].segments = 3
      [] style = "vertical" -> Len(W) = 4 /\ W[2].kind = "cube" /\ W[4].kind = "cube"
      [] style = "ring" -> Len(W) = 2 /\ \A k \in 1..2 : W[k].kind = "cone" /\ ~W[k].cap_ends
      [] style = "stub" -> Len(W) = 2 /\ \A k \in 1..2 : W[k].kind = "cube"
      [] OTHER -> FALSE

\* C10 amended: every face add_wings appends is tagged hull, hull_accent or
\* hull_dark, hull_dark being the tag of the side panels of 'vertical' and of
\* the inner shell of 'ring' and of nothing else; add_wings returns the style
\* whose geometry it appended, and that value is what add_engines receives.
C10_WingTags ==
    /\ \A p \in Range(bm) : p.part = "wing" => p.mat \in {hull, hull_accent, hull_dark}
    /\ \A k \in 1..Len(Parts("wing")) :
          Parts("wing")[k].mat = hull_dark <=>
             \/ wing_style = "vertical" /\ k \in {1, 3}
             \/ wing_style = "ring" /\ k = 2
    /\ wing_style # "" => WingShape(wing_style, Parts("wing"))
    /\ EnginesAdded => engines.wing_style = wing_style

C10_Witness ==
    /\ EnginesAdded
    /\ wing_style = "ring"
    /\ engines.wing_style = "ring"
    /\ Parts("wing")[2].mat = hull_dark

====
